---- MODULE Spec2Model ----
(***************************************************************************)
(* Model of AsyncIICSClient (client.py) with the helpers of base.py:       *)
(* the login / logout session life cycle, the reauthentication loop of     *)
(* _request and the status classification of raise_for_status.             *)
(*                                                                         *)
(* Every `await` of the source is a suspension point: an operation is      *)
(* split at its awaits into one action for the synchronous code up to the  *)
(* await (the request goes out) and one for the code that runs when the    *)
(* response arrives.  The server is the environment: it answers each       *)
(* request with any status and body, or the transport fails.               *)
(***************************************************************************)
EXTENDS Integers, Sequences, FiniteSets, TLC

\* ---- bounds of the model ------------------------------------------------
NumTasks == 2
MaxReauth == 2
MaxOps == 4
MaxStatus == 600
MaxItems == 3

\* ---- program constants --------------------------------------------------
MSG_BODY_LIMIT == 500

Tasks == 1..NumTasks

\* The task of the sequential specification.
Callers == {1}

SESSION_EXPIRED_CODES == {401, 403}

ApiVersion == {"v2", "v3"}

SESSION_HEADER == [v \in ApiVersion |-> IF v = "v2" THEN "icSessionId" ELSE "INFA-SESSION-ID"]

\* ---- values -------------------------------------------------------------
\* SessionInfo (models.py): only the two fields the client reads.
\* present = FALSE is Python's None.
None == [present |-> FALSE, server_url |-> <<>>, session_id |-> ""]

SessionInfo(u, tok) == [present |-> TRUE, server_url |-> u, session_id |-> tok]

\* A response body (resp.text): its length in characters and what
\* resp.json() finds in it: nothing parseable ("empty", "malformed"), a JSON
\* object without the required SessionInfo fields ("object"), or a JSON
\* object with them ("session").
Body(k, n, u, tok) == [kind |-> k, len |-> n, serverUrl |-> u, icSessionId |-> tok]

EmptyBody == Body("empty", 0, <<>>, "")

\* The two sessions the server hands out: a serverUrl and its token.
ServerSessions == {<<<<"h", "1">>, "tokA">>, <<<<"h", "2", "/">>, "tokB">>}

\* Bodies the API endpoints answer with.
ApiBodies == {EmptyBody, Body("malformed", 9, <<>>, ""), Body("object", 9, <<>>, "")}

\* Bodies the login endpoint answers with.
LoginBodies ==
    {EmptyBody, Body("object", 9, <<>>, "")}
        \cup {Body("session", 9, ss[1], ss[2]) : ss \in ServerSessions}

\* Bodies of every length around the message limit, for raise_for_status.
ProbeBodies ==
    {EmptyBody} \cup {Body("object", n, <<>>, "") : n \in {1, 499, 500, 501, 502}}

\* Statuses the server answers with: one or two of every class of raise_for_status.
StatusCodes == {200, 204, 400, 401, 403, 404, 429, 500}

Min(a, b) == IF a < b THEN a ELSE b

\* ---- errors (exceptions.py) ---------------------------------------------
\* kind "none" is "nothing raised".  status_code 0 is Python's None.
NoError == [kind |-> "none", status_code |-> 0, response_body |-> EmptyBody, msg_body_len |-> 0]

IICSError(k, status, body, shown) ==
    [kind |-> k, status_code |-> status, response_body |-> body, msg_body_len |-> shown]

\* An exception that is no IICSError: httpx's transport errors and the
\* ValueError of resp.json() on a body that is no JSON.
ForeignError(k) == [kind |-> k, status_code |-> 0, response_body |-> EmptyBody, msg_body_len |-> 0]

\* ---- base.py ------------------------------------------------------------
\* StatusKind with the server errors starting above 500.
StatusKindAbove500(status_code) ==
    IF 200 <= status_code /\ status_code < 300 THEN "none"
    ELSE IF status_code = 401 THEN "Auth"
    ELSE IF status_code = 403 THEN "Auth"
    ELSE IF status_code = 404 THEN "NotFound"
    ELSE IF status_code = 429 THEN "RateLimit"
    ELSE IF status_code > 500 THEN "ServerError"
    ELSE "Generic"

\* The kind raise_for_status raises for a status, "none" for 2xx.
StatusKind(status_code) ==
    IF 200 <= status_code /\ status_code < 300 THEN "none"
    ELSE IF status_code = 401 THEN "Auth"
    ELSE IF status_code = 403 THEN "Auth"
    ELSE IF status_code = 404 THEN "NotFound"
    ELSE IF status_code = 429 THEN "RateLimit"
    ELSE IF status_code >= 500 THEN "ServerError"
    ELSE "Generic"

raise_for_status(status_code, body) ==
    IF StatusKind(status_code) = "none" THEN NoError
    ELSE IICSError(StatusKind(status_code), status_code, body, Min(body.len, MSG_BODY_LIMIT))

\* parse_model(SessionInfo, data): the validated model, or Validation.
parse_model_ok(body) == body.kind = "session"

parse_model(body) ==
    IF parse_model_ok(body) THEN SessionInfo(body.serverUrl, body.icSessionId) ELSE None

\* Raw items of a list handed to parse_model_list: two that validate as the
\* model and one that does not.
RawItems ==
    {[valid |-> TRUE, id |-> "a"], [valid |-> TRUE, id |-> "b"], [valid |-> FALSE, id |-> "x"]}

\* model_cls.model_validate(item) of a valid item.
Model(item) == [model |-> "Connection", id |-> item.id]

\* Raw values: lists of at most MaxItems items, and values that are no list.
RECURSIVE ListsUpTo(_)
ListsUpTo(n) ==
    IF n = 0 THEN {<<>>}
    ELSE LET shorter == ListsUpTo(n - 1) IN
         shorter \cup {Append(l, i) : l \in {m \in shorter : Len(m) = n - 1}, i \in RawItems}

RawValues ==
    {[is_list |-> TRUE, kind |-> "list", items |-> l] : l \in ListsUpTo(MaxItems)}
        \cup {[is_list |-> FALSE, kind |-> k, items |-> <<>>] : k \in {"dict", "str", "null"}}

\* Outcome of parse_model_list: the typed list or the error, with the number
\* of items parse_model was called on and what the error shows (str(data)).
Parsed(value, examined) ==
    [error |-> "none", value |-> value, examined |-> examined, shown |-> <<>>]
Invalid(examined, shown) ==
    [error |-> "Validation", value |-> <<>>, examined |-> examined, shown |-> shown]

\* A comprehension that drops the items that do not validate.
RECURSIVE parse_items_skipping(_, _, _)
parse_items_skipping(items, done, examined) ==
    IF items = <<>> THEN Parsed(done, examined)
    ELSE IF Head(items).valid
         THEN parse_items_skipping(Tail(items), Append(done, Model(Head(items))), examined + 1)
         ELSE parse_items_skipping(Tail(items), done, examined + 1)

\* [parse_model(model_cls, item) for item in data]: items in order, the
\* first failure of parse_model ends the comprehension.
RECURSIVE parse_items(_, _, _)
parse_items(items, done, examined) ==
    IF items = <<>> THEN Parsed(done, examined)
    ELSE IF Head(items).valid
         THEN parse_items(Tail(items), Append(done, Model(Head(items))), examined + 1)
         ELSE Invalid(examined + 1, <<Head(items)>>)

parse_model_list(data) ==
    IF ~data.is_list THEN Invalid(0, <<data>>)
    ELSE parse_items(data.items, <<>>, 0)

\* A call of parse_model_list that has its argument and has not run yet.
PendingList(data) == [called |-> FALSE, data |-> data, out |-> Parsed(<<>>, 0)]

\* build_request_headers naming the header icSessionId for every version.
build_request_headers_v2_only(session_id, api_version) ==
    [name |-> "icSessionId", value |-> session_id]

\* build_request_headers: the session header of the request (the base
\* headers are the same on every request and are left out, and so are
\* extra_headers: no caller of this repository overrides the session header).
build_request_headers(session_id, api_version) ==
    [name |-> SESSION_HEADER[api_version], value |-> session_id]

\* str.rstrip("/")
RECURSIVE rstrip(_)
rstrip(s) ==
    IF s # <<>> /\ s[Len(s)] = "/" THEN rstrip(SubSeq(s, 1, Len(s) - 1)) ELSE s

\* ---- state --------------------------------------------------------------
VARIABLES
    max_reauth_attempts,  \* self._max_reauth_attempts
    session_info,         \* self._session_info
    client_headers,       \* self._client.headers["icSessionId"] ("" = absent)
    pc,                   \* per task: where its operation is suspended
    op,                   \* per task: the operation it runs or ran last
    attempt,              \* per task: loop index of _request
    resp,                 \* per task: the response _request holds across login()
    req,                  \* per task: the request it has in flight
    url,                  \* per task: the url argument of _request (its base)
    api_version,          \* per task: the api_version argument of _request
    cnt,                  \* per task: what the current call has done so far
    result,               \* per task: how its last operation ended
    ops,                  \* operations started so far
    classified,           \* last direct call of raise_for_status
    closed,               \* calls of self._client.aclose() so far
    login_resp,           \* per task: the response its last login() received
    validated             \* last direct call of parse_model_list

vars == <<max_reauth_attempts, session_info, client_headers, pc, op, attempt, resp,
          req, url, api_version, cnt, result, ops, classified, closed, login_resp, validated>>

\* A response: status and body, or a transport failure (failed = TRUE).
Response(status, body) == [failed |-> FALSE, status_code |-> status, text |-> body]

TransportFailure == [failed |-> TRUE, status_code |-> 0, text |-> EmptyBody]

NoResponse == [failed |-> FALSE, status_code |-> 0, text |-> EmptyBody]

ApiResponses == {Response(s, b) : s \in StatusCodes, b \in ApiBodies} \cup {TransportFailure}

LoginResponses ==
    {Response(s, b) : s \in StatusCodes, b \in LoginBodies} \cup {TransportFailure}

LogoutResponses == {Response(s, EmptyBody) : s \in {200, 500}} \cup {TransportFailure}

\* The answers of the server where tasks run concurrently: one status of the
\* classes the reauthentication loop tells apart.
ConcApiResponses == {Response(s, Body("object", 9, <<>>, "")) : s \in {200, 401, 500}}

ConcLoginResponses ==
    {Response(200, Body("session", 9, ss[1], ss[2])) : ss \in ServerSessions}
        \cup {Response(s, EmptyBody) : s \in {401, 500}}

ConcLogoutResponses == {Response(200, EmptyBody), TransportFailure}

NoRequest == [to |-> "", base |-> <<>>, name |-> "", value |-> ""]

Request(to, base, hdr) == [to |-> to, base |-> base, name |-> hdr.name, value |-> hdr.value]

\* Counters of one call: transport requests issued for the RequestSpec,
\* of them answered 401/403, login() calls made, of them successful.
ZeroCnt == [sent |-> 0, expired |-> 0, logins |-> 0, logins_ok |-> 0]

\* How an operation ended: outcome "return" with a value, or "raise" with an error.
NoResult == [outcome |-> "none", value |-> EmptyBody, isnull |-> FALSE, error |-> NoError,
             last |-> NoResponse]

Return(v, last) == [outcome |-> "return", value |-> v, isnull |-> FALSE, error |-> NoError,
                    last |-> last]

ReturnNull(last) == [outcome |-> "return", value |-> EmptyBody, isnull |-> TRUE,
                     error |-> NoError, last |-> last]

Raise(e, last) == [outcome |-> "raise", value |-> EmptyBody, isnull |-> FALSE, error |-> e,
                   last |-> last]

\* ---- properties of the client -------------------------------------------
\* session_info without its check.
session_info_never_raises == FALSE

\* session_info property: raises Auth when self._session_info is None.
session_info_raises == ~session_info.present

NotAuthenticated == IICSError("Auth", 0, EmptyBody, 0)

\* base_url property
base_url == rstrip(session_info.server_url)

\* _headers(api_version)
headers(v) == build_request_headers(session_info.session_id, v)

\* A call of raise_for_status that has its arguments and has not run yet.
Pending(status_code, body) ==
    [called |-> FALSE, status_code |-> status_code, body |-> body, error |-> NoError]

\* The client as __init__ leaves it, for any configured max_reauth_attempts.
InitClient ==
    /\ max_reauth_attempts \in 0..MaxReauth
    /\ session_info = None
    /\ client_headers = ""
    /\ pc = [t \in Tasks |-> "idle"]
    /\ op = [t \in Tasks |-> "none"]
    /\ attempt = [t \in Tasks |-> 0]
    /\ resp = [t \in Tasks |-> NoResponse]
    /\ req = [t \in Tasks |-> NoRequest]
    /\ url = [t \in Tasks |-> <<>>]
    /\ api_version = [t \in Tasks |-> "v3"]
    /\ cnt = [t \in Tasks |-> ZeroCnt]
    /\ result = [t \in Tasks |-> NoResult]
    /\ ops = 0
    /\ closed = 0
    /\ login_resp = [t \in Tasks |-> NoResponse]

Init ==
    /\ InitClient
    /\ classified = Pending(0, EmptyBody)
    /\ validated = PendingList([is_list |-> TRUE, kind |-> "list", items |-> <<>>])


\* ---- _request -----------------------------------------------------------
\* Iteration over range(2 + self._max_reauth_attempts): one pass too many.
IterationOneMore(a, sess, u, v, last) ==
    IF a > max_reauth_attempts + 1
    THEN [pc |-> "idle", attempt |-> 0, req |-> NoRequest, result |-> ReturnNull(last), sent |-> 0]
    ELSE IF ~sess.present
    THEN [pc |-> "idle", attempt |-> 0, req |-> NoRequest,
          result |-> Raise(NotAuthenticated, last), sent |-> 0]
    ELSE [pc |-> "exec_wait", attempt |-> a,
          req |-> Request("api", u, build_request_headers(sess.session_id, v)),
          result |-> NoResult, sent |-> 1]

\* Iteration with the headers built once from the session installed when the
\* call began, not from the session installed now.
IterationStaleHeaders(a, sess, u, v, last) ==
    IF a > max_reauth_attempts
    THEN [pc |-> "idle", attempt |-> 0, req |-> NoRequest, result |-> ReturnNull(last), sent |-> 0]
    ELSE IF ~sess.present
    THEN [pc |-> "idle", attempt |-> 0, req |-> NoRequest,
          result |-> Raise(NotAuthenticated, last), sent |-> 0]
    ELSE [pc |-> "exec_wait", attempt |-> a,
          req |-> Request("api", u, build_request_headers(session_info.session_id, v)),
          result |-> NoResult, sent |-> 1]

\* One pass of `for attempt in range(1 + self._max_reauth_attempts)` up to
\* its await: the range is exhausted and the function ends without a return
\* statement (Python returns None), or _headers raises because no session is
\* installed, or the request goes out with the headers built just now.
Iteration(a, sess, u, v, last) ==
    IF a > max_reauth_attempts
    THEN [pc |-> "idle", attempt |-> 0, req |-> NoRequest, result |-> ReturnNull(last), sent |-> 0]
    ELSE IF ~sess.present
    THEN [pc |-> "idle", attempt |-> 0, req |-> NoRequest,
          result |-> Raise(NotAuthenticated, last), sent |-> 0]
    ELSE [pc |-> "exec_wait", attempt |-> a,
          req |-> Request("api", u, build_request_headers(sess.session_id, v)),
          result |-> NoResult, sent |-> 1]

\* ShouldReauth taking every 4xx for an expired session.
ShouldReauthAny4xx(status_code, a) ==
    status_code >= 400 /\ status_code < 500 /\ a <= max_reauth_attempts

\* The test of the reauthentication branch of _request.
ShouldReauth(status_code, a) ==
    status_code \in SESSION_EXPIRED_CODES /\ a <= max_reauth_attempts

\* Terminal returning None for a 204 only, not for an empty body.
TerminalOnly204(r) ==
    LET e == raise_for_status(r.status_code, r.text) IN
    IF e.kind # "none" THEN Raise(e, r)
    ELSE IF r.status_code = 204 THEN ReturnNull(r)
    ELSE IF r.text.kind \in {"empty", "malformed"} THEN Raise(ForeignError("JSONDecode"), r)
    ELSE Return(r.text, r)

\* The end of one pass for a response that does not take the
\* reauthentication branch: raise_for_status, then None or resp.json().
Terminal(r) ==
    LET e == raise_for_status(r.status_code, r.text) IN
    IF e.kind # "none" THEN Raise(e, r)
    ELSE IF r.text.len = 0 \/ r.status_code = 204 THEN ReturnNull(r)
    ELSE IF r.text.kind = "malformed" THEN Raise(ForeignError("JSONDecode"), r)
    ELSE Return(r.text, r)

\* ---- login --------------------------------------------------------------
\* What login() raises for the response to its POST ("none": it succeeds).
LoginError(r) ==
    IF r.failed THEN ForeignError("Transport")
    ELSE LET e == raise_for_status(r.status_code, r.text) IN
         IF e.kind # "none" THEN e
         ELSE IF r.text.kind \in {"empty", "malformed"} THEN ForeignError("JSONDecode")
         ELSE IF ~parse_model_ok(r.text) THEN IICSError("Validation", 0, r.text, 0)
         ELSE NoError

\* LoginInstalls dropping the session when the login fails.
LoginInstallsOrClears(r, prior) ==
    IF LoginError(r).kind = "none" THEN parse_model(r.text) ELSE None

\* The session login() leaves installed after the response r.
LoginInstalls(r, prior) == IF LoginError(r).kind = "none" THEN parse_model(r.text) ELSE prior

\* LoginHeader removing the header when the login fails.
LoginHeaderOrDrops(r, prior) ==
    IF LoginError(r).kind = "none" THEN parse_model(r.text).session_id ELSE ""

\* The default icSessionId header login() leaves on the transport client.
LoginHeader(r, prior) ==
    IF LoginError(r).kind = "none" THEN parse_model(r.text).session_id ELSE prior

\* The POST of login() and of logout(): it carries the client's default headers.
AuthRequest(to) == Request(to, <<>>, [name |-> "icSessionId", value |-> client_headers])

\* An except clause that catches IICSValidationError as well.
ReauthCatchesValidation(e) == e.kind \in {"Auth", "Validation"}

\* Which errors the try/except around login() in _request catches.
ReauthCatches(e) == e.kind = "Auth"

\* ---- actions ------------------------------------------------------------
\* The model follows the client until its transport is closed: no
\* operation is begun on a closed client.
Usable == closed = 0

\* _get, _post, _put, _delete, raw_get, raw_post: the url is built from
\* base_url (which raises when no session is installed), then _request runs
\* up to its first await.
StartExecute(t, v) ==
    /\ pc[t] = "idle"
    /\ ops < MaxOps
    /\ Usable
    /\ ops' = ops + 1
    /\ op' = [op EXCEPT ![t] = "execute"]
    /\ api_version' = [api_version EXCEPT ![t] = v]
    /\ resp' = [resp EXCEPT ![t] = NoResponse]
    /\ IF session_info_raises
       THEN /\ result' = [result EXCEPT ![t] = Raise(NotAuthenticated, NoResponse)]
            /\ cnt' = [cnt EXCEPT ![t] = ZeroCnt]
            /\ url' = [url EXCEPT ![t] = <<>>]
            /\ UNCHANGED <<pc, attempt, req>>
       ELSE LET it == Iteration(0, session_info, base_url, v, NoResponse) IN
            /\ url' = [url EXCEPT ![t] = base_url]
            /\ pc' = [pc EXCEPT ![t] = it.pc]
            /\ attempt' = [attempt EXCEPT ![t] = it.attempt]
            /\ req' = [req EXCEPT ![t] = it.req]
            /\ result' = [result EXCEPT ![t] = it.result]
            /\ cnt' = [cnt EXCEPT ![t] = [ZeroCnt EXCEPT !.sent = it.sent]]
    /\ login_resp' = [login_resp EXCEPT ![t] = NoResponse]
    /\ UNCHANGED <<max_reauth_attempts, session_info, client_headers, classified, closed, validated>>

\* The response to the request of _request arrives and takes the
\* reauthentication branch: login() runs up to its await.
ExecReauth(t, r) ==
    /\ pc[t] = "exec_wait"
    /\ ~r.failed
    /\ ShouldReauth(r.status_code, attempt[t])
    /\ pc' = [pc EXCEPT ![t] = "reauth_wait"]
    /\ resp' = [resp EXCEPT ![t] = r]
    /\ req' = [req EXCEPT ![t] = AuthRequest("login")]
    /\ cnt' = [cnt EXCEPT ![t].expired = @ + 1, ![t].logins = @ + 1]
    /\ UNCHANGED <<max_reauth_attempts, session_info, client_headers, op, attempt, url,
                   api_version, result, ops, classified, closed, login_resp, validated>>

\* The response arrives and ends the call: the transport failed, or
\* raise_for_status raises, or the call returns.
ExecFinish(t, r) ==
    /\ pc[t] = "exec_wait"
    /\ r.failed \/ ~ShouldReauth(r.status_code, attempt[t])
    /\ pc' = [pc EXCEPT ![t] = "idle"]
    /\ attempt' = [attempt EXCEPT ![t] = 0]
    /\ req' = [req EXCEPT ![t] = NoRequest]
    /\ result' = [result EXCEPT ![t] =
                    IF r.failed THEN Raise(ForeignError("Transport"), r) ELSE Terminal(r)]
    /\ cnt' = [cnt EXCEPT ![t].expired =
                    IF ~r.failed /\ r.status_code \in SESSION_EXPIRED_CODES THEN @ + 1 ELSE @]
    /\ UNCHANGED <<max_reauth_attempts, session_info, client_headers, op, resp, url,
                   api_version, ops, classified, closed, login_resp, validated>>

\* The response to the login POST that _request started arrives: login()
\* finishes, then the try/except and the `continue` of _request run, up to
\* the next await.
ReauthRecv(t, r) ==
    /\ pc[t] = "reauth_wait"
    /\ LET e == LoginError(r)
           sess == LoginInstalls(r, session_info)
           orig == raise_for_status(resp[t].status_code, resp[t].text)
           it == Iteration(attempt[t] + 1, sess, url[t], api_version[t], resp[t])
           goes_on == e.kind = "none" \/ (ReauthCatches(e) /\ orig.kind = "none")
       IN
       /\ session_info' = sess
       /\ client_headers' = LoginHeader(r, client_headers)
       /\ pc' = [pc EXCEPT ![t] = IF goes_on THEN it.pc ELSE "idle"]
       /\ attempt' = [attempt EXCEPT ![t] = IF goes_on THEN it.attempt ELSE 0]
       /\ req' = [req EXCEPT ![t] = IF goes_on THEN it.req ELSE NoRequest]
       /\ result' = [result EXCEPT ![t] =
                        IF goes_on THEN it.result
                        ELSE IF ReauthCatches(e) THEN Raise(orig, resp[t])
                        ELSE Raise(e, resp[t])]
       /\ cnt' = [cnt EXCEPT ![t].logins_ok = IF e.kind = "none" THEN @ + 1 ELSE @,
                             ![t].sent = IF goes_on THEN @ + it.sent ELSE @]
    /\ resp' = [resp EXCEPT ![t] = NoResponse]
    /\ login_resp' = [login_resp EXCEPT ![t] = r]
    /\ UNCHANGED <<max_reauth_attempts, op, url, api_version, ops, classified, closed, validated>>

\* login() called by the user of the client, up to its await.
LoginStart(t) ==
    /\ pc[t] = "idle"
    /\ ops < MaxOps
    /\ Usable
    /\ ops' = ops + 1
    /\ op' = [op EXCEPT ![t] = "login"]
    /\ pc' = [pc EXCEPT ![t] = "login_wait"]
    /\ req' = [req EXCEPT ![t] = AuthRequest("login")]
    /\ cnt' = [cnt EXCEPT ![t] = ZeroCnt]
    /\ result' = [result EXCEPT ![t] = NoResult]
    /\ login_resp' = [login_resp EXCEPT ![t] = NoResponse]
    /\ UNCHANGED <<max_reauth_attempts, session_info, client_headers, attempt, resp, url,
                   api_version, classified, closed, validated>>

\* The response to that login POST arrives.
LoginRecv(t, r) ==
    /\ pc[t] = "login_wait"
    /\ session_info' = LoginInstalls(r, session_info)
    /\ client_headers' = LoginHeader(r, client_headers)
    /\ pc' = [pc EXCEPT ![t] = "idle"]
    /\ req' = [req EXCEPT ![t] = NoRequest]
    /\ result' = [result EXCEPT ![t] =
                    IF LoginError(r).kind = "none" THEN Return(r.text, r)
                    ELSE Raise(LoginError(r), r)]
    /\ login_resp' = [login_resp EXCEPT ![t] = r]
    /\ UNCHANGED <<max_reauth_attempts, op, attempt, resp, url, api_version, cnt, ops,
                   classified, closed, validated>>

\* logout() up to its await; with no session it returns at once.
LogoutStart(t) ==
    /\ pc[t] = "idle"
    /\ ops < MaxOps
    /\ Usable
    /\ ops' = ops + 1
    /\ op' = [op EXCEPT ![t] = "logout"]
    /\ cnt' = [cnt EXCEPT ![t] = ZeroCnt]
    /\ IF session_info = None
       THEN /\ result' = [result EXCEPT ![t] = ReturnNull(NoResponse)]
            /\ UNCHANGED <<pc, req>>
       ELSE /\ pc' = [pc EXCEPT ![t] = "logout_wait"]
            /\ req' = [req EXCEPT ![t] = AuthRequest("logout")]
            /\ result' = [result EXCEPT ![t] = NoResult]
    /\ UNCHANGED <<max_reauth_attempts, session_info, client_headers, attempt, resp, url,
                   api_version, classified, closed, login_resp, validated>>

\* LogoutLeaves clearing the session in the try block, not in finally.
LogoutLeavesOnFailure(r, prior) == IF r.failed THEN prior ELSE None

\* What logout() leaves installed once its POST has ended with r: the
\* finally clause clears the session whatever happened.
LogoutLeaves(r, prior) == None

\* How logout() ends once its POST has ended with r: the status is not
\* looked at and the except clause swallows a failure of the transport.
LogoutResult(r) == ReturnNull(r)

\* The logout POST ends, with whatever status or a transport failure.
LogoutRecv(t, r) ==
    /\ pc[t] = "logout_wait"
    /\ session_info' = LogoutLeaves(r, session_info)
    /\ client_headers' = LogoutLeaves(r, session_info).session_id
    /\ pc' = [pc EXCEPT ![t] = "idle"]
    /\ req' = [req EXCEPT ![t] = NoRequest]
    /\ result' = [result EXCEPT ![t] = LogoutResult(r)]
    /\ UNCHANGED <<max_reauth_attempts, op, attempt, resp, url, api_version, cnt, ops,
                   classified, closed, login_resp, validated>>

\* The caller reads session_info, base_url and _headers(v).
Query(t, v) ==
    /\ pc[t] = "idle"
    /\ ops < MaxOps
    /\ Usable
    /\ ops' = ops + 1
    /\ op' = [op EXCEPT ![t] = "query"]
    /\ api_version' = [api_version EXCEPT ![t] = v]
    /\ cnt' = [cnt EXCEPT ![t] = ZeroCnt]
    /\ result' = [result EXCEPT ![t] =
                    IF session_info_raises THEN Raise(NotAuthenticated, NoResponse)
                    ELSE Return([session_info |-> session_info, base_url |-> base_url,
                                 headers |-> headers(v)], NoResponse)]
    /\ UNCHANGED <<max_reauth_attempts, session_info, client_headers, pc, attempt, resp,
                   req, url, classified, closed, login_resp, validated>>

\* AexitCloses skipping close() when the logout POST failed.
AexitClosesUnlessFailed(r) == ~r.failed

\* Whether __aexit__ goes on to close() once the POST of its logout() has
\* ended with r: logout() swallows every failure, so it always does.
AexitCloses(r) == TRUE

\* __aexit__ up to its first await: logout() runs first; with no session it
\* returns at once and close() calls aclose().
AexitStart(t) ==
    /\ pc[t] = "idle"
    /\ ops < MaxOps
    /\ Usable
    /\ ops' = ops + 1
    /\ op' = [op EXCEPT ![t] = "aexit"]
    /\ cnt' = [cnt EXCEPT ![t] = ZeroCnt]
    /\ result' = [result EXCEPT ![t] = NoResult]
    /\ resp' = [resp EXCEPT ![t] = NoResponse]
    /\ IF session_info = None
       THEN /\ pc' = [pc EXCEPT ![t] = "close_wait"]
            /\ closed' = closed + 1
            /\ UNCHANGED req
       ELSE /\ pc' = [pc EXCEPT ![t] = "aexit_wait"]
            /\ req' = [req EXCEPT ![t] = AuthRequest("logout")]
            /\ UNCHANGED closed
    /\ UNCHANGED <<max_reauth_attempts, session_info, client_headers, attempt, url,
                   api_version, classified, login_resp, validated>>

\* The logout POST of __aexit__ ends: logout() clears the session, then
\* close() calls aclose().
AexitRecv(t, r) ==
    /\ pc[t] = "aexit_wait"
    /\ session_info' = LogoutLeaves(r, session_info)
    /\ client_headers' = LogoutLeaves(r, session_info).session_id
    /\ req' = [req EXCEPT ![t] = NoRequest]
    /\ IF AexitCloses(r)
       THEN /\ pc' = [pc EXCEPT ![t] = "close_wait"]
            /\ closed' = closed + 1
            /\ resp' = [resp EXCEPT ![t] = r]
            /\ UNCHANGED result
       ELSE /\ pc' = [pc EXCEPT ![t] = "idle"]
            /\ result' = [result EXCEPT ![t] = Raise(ForeignError("Transport"), r)]
            /\ UNCHANGED <<closed, resp>>
    /\ UNCHANGED <<max_reauth_attempts, op, attempt, url, api_version, cnt, ops, classified,
                   login_resp, validated>>

\* close() called by the user of the client, up to its await.
CloseStart(t) ==
    /\ pc[t] = "idle"
    /\ ops < MaxOps
    /\ Usable
    /\ ops' = ops + 1
    /\ op' = [op EXCEPT ![t] = "close"]
    /\ cnt' = [cnt EXCEPT ![t] = ZeroCnt]
    /\ result' = [result EXCEPT ![t] = NoResult]
    /\ resp' = [resp EXCEPT ![t] = NoResponse]
    /\ pc' = [pc EXCEPT ![t] = "close_wait"]
    /\ closed' = closed + 1
    /\ UNCHANGED <<max_reauth_attempts, session_info, client_headers, attempt, req, url,
                   api_version, classified, login_resp, validated>>

\* aclose() has released the connections: close(), and with it __aexit__, returns.
CloseDone(t) ==
    /\ pc[t] = "close_wait"
    /\ pc' = [pc EXCEPT ![t] = "idle"]
    /\ result' = [result EXCEPT ![t] = ReturnNull(resp[t])]
    /\ resp' = [resp EXCEPT ![t] = NoResponse]
    /\ UNCHANGED <<max_reauth_attempts, session_info, client_headers, op, attempt, req, url,
                   api_version, cnt, ops, classified, closed, login_resp, validated>>

\* raise_for_status called on its own with the pending arguments.
Classify ==
    /\ ~classified.called
    /\ classified' = [classified EXCEPT
                        !.called = TRUE,
                        !.error = raise_for_status(classified.status_code, classified.body)]
    /\ UNCHANGED <<max_reauth_attempts, session_info, client_headers, pc, op, attempt, resp,
                   req, url, api_version, cnt, result, ops, closed, login_resp, validated>>

\* parse_model_list called on its own with the pending argument.
ParseList ==
    /\ ~validated.called
    /\ validated' = [validated EXCEPT !.called = TRUE, !.out = parse_model_list(validated.data)]
    /\ UNCHANGED <<max_reauth_attempts, session_info, client_headers, pc, op, attempt, resp,
                   req, url, api_version, cnt, result, ops, classified, closed, login_resp>>

\* One caller issuing its operations one after the other, against a server
\* that answers with every status class and body.
Next ==
    \/ \E t \in Callers, v \in ApiVersion : StartExecute(t, v)
    \/ \E t \in Callers, r \in ApiResponses : ExecReauth(t, r)
    \/ \E t \in Callers, r \in ApiResponses : ExecFinish(t, r)
    \/ \E t \in Callers, r \in LoginResponses : ReauthRecv(t, r)
    \/ \E t \in Callers : LoginStart(t)
    \/ \E t \in Callers, r \in LoginResponses : LoginRecv(t, r)
    \/ \E t \in Callers : LogoutStart(t)
    \/ \E t \in Callers, r \in LogoutResponses : LogoutRecv(t, r)
    \/ \E t \in Callers, v \in ApiVersion : Query(t, v)
    \/ \E t \in Callers : AexitStart(t)
    \/ \E t \in Callers, r \in LogoutResponses : AexitRecv(t, r)
    \/ \E t \in Callers : CloseStart(t)
    \/ \E t \in Callers : CloseDone(t)

Spec == Init /\ [][Next]_vars

\* Several tasks sharing the client (asyncio.gather in the module's usage
\* note), their operations interleaved at the awaits.
InitConc == Init /\ max_reauth_attempts = 1

NextConc ==
    \/ \E t \in Tasks : StartExecute(t, "v3")
    \/ \E t \in Tasks, r \in ConcApiResponses : ExecReauth(t, r)
    \/ \E t \in Tasks, r \in ConcApiResponses : ExecFinish(t, r)
    \/ \E t \in Tasks, r \in ConcLoginResponses : ReauthRecv(t, r)
    \/ \E t \in Tasks : LoginStart(t)
    \/ \E t \in Tasks, r \in ConcLoginResponses : LoginRecv(t, r)
    \/ \E t \in Tasks : LogoutStart(t)
    \/ \E t \in Tasks, r \in ConcLogoutResponses : LogoutRecv(t, r)

SpecConc == InitConc /\ [][NextConc]_vars

\* raise_for_status alone, on every status up to MaxStatus and bodies of
\* every length around the limit of the message.
InitClassify ==
    /\ InitClient
    /\ classified \in {Pending(status_code, body) : status_code \in 0..MaxStatus, body \in ProbeBodies}
    /\ validated = PendingList([is_list |-> TRUE, kind |-> "list", items |-> <<>>])

NextClassify == Classify

SpecClassify == InitClassify /\ [][NextClassify]_vars

\* parse_model_list alone, on every raw value of RawValues.
InitParse ==
    /\ InitClient
    /\ classified = Pending(0, EmptyBody)
    /\ validated \in {PendingList(data) : data \in RawValues}

NextParse == ParseList

SpecParse == InitParse /\ [][NextParse]_vars

\* Every transport call completes: the response to a request in flight, or
\* the failure of the transport, arrives.
TransportCompletes ==
    \A t \in Callers :
        /\ WF_vars(\E r \in ApiResponses : ExecReauth(t, r) \/ ExecFinish(t, r))
        /\ WF_vars(\E r \in LoginResponses : ReauthRecv(t, r))

SpecFair == Init /\ [][Next]_vars /\ TransportCompletes

\* ==== properties ==========================================================
\* An execute call of task t has ended.
Finished(t) == op[t] = "execute" /\ pc[t] = "idle" /\ result[t].outcome # "none"

Is2xx(status_code) == 200 <= status_code /\ status_code < 300

\* The response the call of task t received last: the one _request holds
\* while login() runs, else the one its result came from.
Received(t) == IF pc[t] = "reauth_wait" THEN resp[t] ELSE result[t].last

\* Task t's request has been answered in this step (by a response, not by a
\* failure of the transport).
Answered(t) == pc[t] = "exec_wait" /\ pc'[t] # "exec_wait" /\ ~Received(t)'.failed

\* Every pass of the loop was answered 401/403 and every login() succeeded.
AllExpiredAllRelogged(t) ==
    /\ Finished(t)
    /\ cnt[t].sent >= 1
    /\ cnt[t].expired = cnt[t].sent
    /\ cnt[t].logins_ok = cnt[t].logins

\* C1: a call whose every pass is answered 401 or 403 and whose every
\* re-login succeeds ends by raising the Auth error of the last pass's
\* response; it does not return.
C1_ExhaustionRaisesAuth ==
    \A t \in Callers :
        AllExpiredAllRelogged(t) =>
            /\ result[t].outcome = "raise"
            /\ result[t].error.kind = "Auth"
            /\ result[t].error.status_code = result[t].last.status_code
            /\ result[t].error.response_body = result[t].last.text

\* C2: when the re-login after a 401/403 fails, with a response of the login
\* endpoint, the call raises the Auth error of the response that triggered
\* the re-login, not the error of the login.
C2_ReloginFailureRaisesOriginal ==
    \A t \in Callers :
        (/\ Finished(t)
         /\ cnt[t].logins_ok < cnt[t].logins
         /\ result[t].error.kind # "Transport") =>
            /\ result[t].outcome = "raise"
            /\ result[t].error.kind = "Auth"
            /\ result[t].last.status_code \in {401, 403}
            /\ result[t].error.status_code = result[t].last.status_code
            /\ result[t].error.response_body = result[t].last.text

\* The payload of a 2xx response: null for an empty body or a 204, the
\* parsed JSON body otherwise; a body that is no JSON has none.
HasPayload(r) == r.text.len = 0 \/ r.status_code = 204 \/ r.text.kind # "malformed"

ReturnsPayloadOf(res, r) ==
    /\ res.outcome = "return"
    /\ res.isnull <=> (r.text.len = 0 \/ r.status_code = 204)
    /\ ~res.isnull => res.value = r.text

\* C3: after k answers 401/403 in a row, 1 <= k <= max_reauth_attempts, each
\* followed by a successful re-login, a 2xx answer with a payload is
\* returned to the caller, and the call has made exactly k logins.
C3_TransparentRetry ==
    \A t \in Callers :
        (/\ Finished(t)
         /\ cnt[t].expired >= 1
         /\ cnt[t].expired <= max_reauth_attempts
         /\ cnt[t].sent = cnt[t].expired + 1
         /\ cnt[t].logins_ok = cnt[t].expired
         /\ ~result[t].last.failed
         /\ Is2xx(result[t].last.status_code)
         /\ HasPayload(result[t].last)) =>
            /\ ReturnsPayloadOf(result[t], result[t].last)
            /\ cnt[t].logins = cnt[t].expired

C3_Witness ==
    \E t \in Callers :
        /\ Finished(t)
        /\ cnt[t].expired = 2
        /\ max_reauth_attempts = 2
        /\ cnt[t].sent = 3
        /\ cnt[t].logins = 2
        /\ result[t].last.status_code = 200
        /\ result[t].outcome = "return"
        /\ ~result[t].isnull

\* C4: an answer that is neither 2xx nor 401/403 ends the call in the same
\* pass with the error classified from it: no further request and no login
\* follow (one request and no login in all when it is the first answer),
\* and the installed session stays as it was.
C4_OtherErrorRaisedAtOnce ==
    [][\A t \in Callers :
        (/\ Answered(t)
         /\ ~Is2xx(Received(t)'.status_code)
         /\ Received(t)'.status_code \notin {401, 403}) =>
            /\ pc'[t] = "idle"
            /\ result'[t].outcome = "raise"
            /\ result'[t].error.kind \in {"NotFound", "RateLimit", "ServerError", "Generic"}
            /\ result'[t].error.status_code = Received(t)'.status_code
            /\ result'[t].error.response_body = Received(t)'.text
            /\ cnt'[t].sent = cnt[t].sent
            /\ cnt'[t].logins = cnt[t].logins
            /\ cnt[t].expired = 0 => (cnt'[t].sent = 1 /\ cnt'[t].logins = 0)
            /\ session_info' = session_info
            /\ client_headers' = client_headers]_vars

C4_Witness ==
    \E t \in Callers :
        /\ Finished(t)
        /\ result[t].last.status_code = 404
        /\ result[t].error.kind = "NotFound"
        /\ cnt[t].sent = 1
        /\ cnt[t].logins = 0
        /\ session_info.present

\* C5: a 2xx answer with an empty body or a 204 makes the call return null, a
\* 2xx answer with a JSON body makes it return the parsed body, and no error
\* is raised; and a call returns null only for such a 2xx answer.
C5_NullOnlyForEmpty2xx ==
    \A t \in Callers :
        Finished(t) =>
            /\ (/\ ~result[t].last.failed
                /\ Is2xx(result[t].last.status_code)
                /\ HasPayload(result[t].last)) => ReturnsPayloadOf(result[t], result[t].last)
            /\ (result[t].outcome = "return" /\ result[t].isnull) =>
                  /\ Is2xx(result[t].last.status_code)
                  /\ result[t].last.text.len = 0 \/ result[t].last.status_code = 204

\* C6: raise_for_status raises nothing exactly for 200..299, Auth for 401 and
\* 403, NotFound for 404, RateLimit for 429, ServerError from 500 on and
\* Generic for every other status; the error carries the status and the
\* whole body.
C6_StatusMapping ==
    classified.called =>
        LET s == classified.status_code
            e == classified.error
        IN
        /\ e.kind = "none" <=> (200 <= s /\ s <= 299)
        /\ s \in {401, 403} => e.kind = "Auth"
        /\ s = 404 => e.kind = "NotFound"
        /\ s = 429 => e.kind = "RateLimit"
        /\ s >= 500 => e.kind = "ServerError"
        /\ (s < 200 \/ (s >= 300 /\ s < 500 /\ s \notin {401, 403, 404, 429})) => e.kind = "Generic"
        /\ e.kind # "none" => (e.status_code = s /\ e.response_body = classified.body)

C6_Witness ==
    /\ classified.called
    /\ classified.status_code = 302
    /\ classified.error.kind = "Generic"
    /\ classified.body.len = 501
    /\ classified.error.response_body.len = 501
    /\ classified.error.msg_body_len = 500

\* C7: login() answered 2xx with a body that validates installs the session
\* of that body in place of whatever was installed; a login() that fails
\* raises and leaves the installed session, or the lack of one, as it was.
\* The login() that _request runs leaves the session alone when it fails.
C7_LoginInstallsOrLeaves ==
    [][\A t \in Callers :
        /\ (pc[t] = "login_wait" /\ pc'[t] = "idle") =>
              LET r == result'[t].last IN
              IF ~r.failed /\ Is2xx(r.status_code) /\ r.text.kind = "session"
              THEN /\ result'[t].outcome = "return"
                   /\ session_info' = [present |-> TRUE, server_url |-> r.text.serverUrl,
                                       session_id |-> r.text.icSessionId]
              ELSE /\ result'[t].outcome = "raise"
                   /\ session_info' = session_info
        /\ (/\ pc[t] = "reauth_wait"
            /\ pc'[t] # "reauth_wait"
            /\ cnt'[t].logins_ok = cnt[t].logins_ok) => session_info' = session_info]_vars

C7_Witness ==
    \E t \in Callers :
        /\ op[t] = "login"
        /\ pc[t] = "idle"
        /\ result[t].outcome = "raise"
        /\ result[t].error.kind = "Validation"
        /\ session_info.present

\* A step in which task t calls logout().
CallsLogout(t) == pc[t] = "idle" /\ op'[t] = "logout" /\ ops' = ops + 1

\* C8: logout() never raises.  Without a session it returns at once and
\* sends nothing; with one it sends the logout POST and, whatever the
\* answer (2xx, 500, a failure of the transport), no session is installed
\* when it returns.
C8_LogoutBestEffort ==
    [][\A t \in Callers :
        /\ (CallsLogout(t) /\ session_info = None) =>
              /\ pc'[t] = "idle"
              /\ result'[t].outcome = "return"
              /\ req'[t] = NoRequest
        /\ (CallsLogout(t) /\ session_info # None) =>
              /\ pc'[t] = "logout_wait"
              /\ req'[t].to = "logout"
        /\ (pc[t] = "logout_wait" /\ pc'[t] # "logout_wait") =>
              /\ pc'[t] = "idle"
              /\ result'[t].outcome = "return"
              /\ req'[t] = NoRequest
              /\ session_info' = None]_vars

C8_Witness ==
    \E t \in Callers :
        /\ op[t] = "logout"
        /\ pc[t] = "idle"
        /\ result[t].outcome = "return"
        /\ result[t].last.status_code = 500
        /\ session_info = None

\* C9: reading the session, the base URL or the auth headers raises Auth
\* exactly when no session is installed; with a session installed it yields
\* that session, its serverUrl without trailing "/" and its token under the
\* header name of the API version.
C9_QueryRaisesIffNoSession ==
    \A t \in Callers :
        (op[t] = "query" /\ pc[t] = "idle") =>
            /\ result[t].outcome = "raise" <=> session_info = None
            /\ result[t].outcome = "raise" => result[t].error.kind = "Auth"
            /\ result[t].outcome = "return" <=> session_info # None
            /\ result[t].outcome = "return" =>
                  LET v == result[t].value
                      u == session_info.server_url
                  IN
                  /\ v.session_info = session_info
                  /\ v.base_url \in {SubSeq(u, 1, n) : n \in 0..Len(u)}
                  /\ v.base_url = <<>> \/ v.base_url[Len(v.base_url)] # "/"
                  /\ \A n \in (Len(v.base_url) + 1)..Len(u) : u[n] = "/"
                  /\ v.headers.value = session_info.session_id
                  /\ v.headers.name =
                        (IF api_version[t] = "v2" THEN "icSessionId" ELSE "INFA-SESSION-ID")

C9_Witness ==
    \E t \in Callers :
        /\ op[t] = "query"
        /\ result[t].outcome = "return"
        /\ result[t].value.base_url # session_info.server_url
        /\ api_version[t] = "v2"

\* C10: of the execute calls in flight on one client, at most one has a
\* login exchange in progress at any time.
C10_SingleFlightReauth == Cardinality({t \in Tasks : pc[t] = "reauth_wait"}) <= 1

\* Task t sends a request of _request in this step.
Sends(t) == pc[t] # "exec_wait" /\ pc'[t] = "exec_wait"

\* C11: in every interleaving, a call that starts with no session installed
\* raises Auth and issues no transport call, and every request that goes
\* out goes out while a session is installed and carries that session's
\* token.
C11_NoRequestWithoutSession ==
    /\ [](\A t \in Tasks :
            (Finished(t) /\ cnt[t].sent = 0) =>
                /\ result[t].outcome = "raise"
                /\ result[t].error.kind = "Auth")
    /\ [][\A t \in Tasks :
            Sends(t) =>
                /\ session_info'.present
                /\ req'[t].to = "api"
                /\ req'[t].value = session_info'.session_id
                /\ cnt'[t].sent >= 1]_vars

C11_Witness ==
    \E t \in Tasks, u \in Tasks :
        /\ t # u
        /\ pc[t] = "exec_wait"
        /\ cnt[t].logins_ok = 1
        /\ req[t].value = session_info.session_id
        /\ op[u] = "execute"
        /\ pc[u] = "idle"
        /\ cnt[u].sent = 0
        /\ result[u].error.kind = "Auth"

C18_UrlOfTheTokensSession ==
    \A t \in Callers :
        pc[t] = "exec_wait" =>
            \E ss \in ServerSessions :
                /\ req[t].value = ss[2]
                /\ req[t].base \in {ss[1], SubSeq(ss[1], 1, Len(ss[1]) - 1)}
                /\ req[t].base[Len(req[t].base)] # "/"

\* A step in which task t enters __aexit__.
CallsAexit(t) == pc[t] = "idle" /\ op'[t] = "aexit" /\ ops' = ops + 1

\* C13: __aexit__ attempts the logout before it closes the transport, calls
\* aclose() exactly once, and does so also when the logout request fails.
C13_LogoutThenCloseOnce ==
    /\ [](\A t \in Callers :
            (op[t] = "aexit" /\ pc[t] = "idle" /\ result[t].outcome # "none") =>
                /\ result[t].outcome = "return"
                /\ closed = 1
                /\ session_info = None)
    /\ [][\A t \in Callers :
            /\ (CallsAexit(t) /\ session_info # None) =>
                  /\ pc'[t] = "aexit_wait"
                  /\ req'[t].to = "logout"
                  /\ closed' = closed
            /\ (CallsAexit(t) /\ session_info = None) =>
                  /\ pc'[t] = "close_wait"
                  /\ closed' = closed + 1
            /\ (pc[t] = "aexit_wait" /\ pc'[t] # "aexit_wait") =>
                  /\ pc'[t] = "close_wait"
                  /\ closed' = closed + 1
                  /\ session_info' = None
            /\ (pc[t] = "close_wait" /\ pc'[t] # "close_wait") =>
                  /\ pc'[t] = "idle"
                  /\ closed' = closed]_vars

C13_Witness ==
    \E t \in Callers :
        /\ op[t] = "aexit"
        /\ pc[t] = "idle"
        /\ result[t].outcome = "return"
        /\ result[t].last.failed
        /\ closed = 1
        /\ session_info = None

\* C14: the loop index stays within 0..max_reauth_attempts and login is
\* invoked only on a pass with attempt < max_reauth_attempts, so a call
\* makes at most max_reauth_attempts logins, none on its last pass and none
\* at all when max_reauth_attempts is 0.
C14_LoginOnlyBeforeLastPass ==
    \A t \in Callers :
        op[t] = "execute" =>
            /\ attempt[t] \in 0..max_reauth_attempts
            /\ cnt[t].logins <= max_reauth_attempts
            /\ pc[t] = "reauth_wait" => attempt[t] < max_reauth_attempts
            /\ max_reauth_attempts = 0 => cnt[t].logins = 0

\* C15: an execute call issues at most 1 + max_reauth_attempts requests and,
\* every transport call completing, it ends, whatever the server answers
\* and however each re-login ends.
C15_BoundedAndTerminates ==
    /\ [](\A t \in Callers : op[t] = "execute" => cnt[t].sent <= 1 + max_reauth_attempts)
    /\ \A t \in Callers :
          (op[t] = "execute" /\ pc[t] \in {"exec_wait", "reauth_wait"}) ~> Finished(t)

\* A call that used every pass, each ended by a failing or successful login.
C15_Witness ==
    \E t \in Callers :
        /\ Finished(t)
        /\ max_reauth_attempts = 2
        /\ cnt[t].sent = 3
        /\ cnt[t].logins = 3
        /\ cnt[t].logins_ok = 2
        /\ result[t].outcome = "raise"

\* A 2xx answer of the login endpoint whose JSON body is no SessionInfo.
FailsValidation(r) ==
    /\ ~r.failed
    /\ Is2xx(r.status_code)
    /\ r.text.kind \notin {"empty", "malformed"}
    /\ ~parse_model_ok(r.text)

RECURSIVE FirstInvalid(_, _)
FirstInvalid(items, i) ==
    IF i > Len(items) THEN 0
    ELSE IF ~items[i].valid THEN i
    ELSE FirstInvalid(items, i + 1)

\* C17: parse_model_list raises Validation on a value that is no list before
\* parsing any item; on a list it parses the items in order, raises
\* Validation at the first item that does not validate without parsing the
\* later ones, and returns the models of all items, same length and order,
\* when every item validates.
C17_ParseModelList ==
    validated.called =>
        LET data == validated.data
            out == validated.out
            bad == FirstInvalid(data.items, 1)
        IN
        /\ ~data.is_list =>
              out.error = "Validation" /\ out.examined = 0 /\ out.shown = <<data>>
        /\ (data.is_list /\ bad > 0) =>
              /\ out.error = "Validation"
              /\ out.examined = bad
              /\ out.shown = <<data.items[bad]>>
        /\ (data.is_list /\ bad = 0) =>
              /\ out.error = "none"
              /\ out.examined = Len(data.items)
              /\ Len(out.value) = Len(data.items)
              /\ \A i \in 1..Len(data.items) : out.value[i] = Model(data.items[i])

\* A list of three items whose second and third do not validate: the call
\* raised at the second and never parsed the third.
C17_Witness ==
    /\ validated.called
    /\ validated.data.is_list
    /\ Len(validated.data.items) = 3
    /\ validated.data.items[1].valid
    /\ ~validated.data.items[2].valid
    /\ ~validated.data.items[3].valid
    /\ validated.out.error = "Validation"
    /\ validated.out.examined = 2

\* The login() that _request started for task t ends in this step.
ReloginEnds(t) == pc[t] = "reauth_wait" /\ pc'[t] # "reauth_wait"

\* C19: once logout() has cleared the session, the re-login of an execute
\* call that was in flight installs no session: with none installed when the
\* re-login ends, none is installed after it.
C19_NoReinstallAfterLogout ==
    [][\A t \in Tasks : (ReloginEnds(t) /\ session_info = None) => session_info' = None]_vars

\* No login() and no logout() is between its call and its return.
NoAuthCallRunning ==
    \A t \in Tasks : pc[t] \notin {"login_wait", "reauth_wait", "logout_wait", "aexit_wait"}

\* The login() of task t, called by the user or by _request, ends in this
\* step with an error.
LoginFails(t) ==
    /\ pc[t] \in {"login_wait", "reauth_wait"}
    /\ pc'[t] # pc[t]
    /\ LoginError(login_resp'[t]).kind # "none"

\* C20: whenever no login() or logout() is running, the transport client
\* has a default icSessionId header ("" is no header) exactly when a session
\* is installed, and the header is that session's token; a login() that
\* fails leaves the session and the header as they were.
C20_DefaultHeaderFollowsSession ==
    /\ [](NoAuthCallRunning =>
            /\ client_headers # "" <=> session_info.present
            /\ client_headers = session_info.session_id)
    /\ [][\A t \in Callers :
            LoginFails(t) => session_info' = session_info /\ client_headers' = client_headers]_vars

\* A login() called on a logged-in client has failed: the earlier session
\* and its header are still there.
C20_Witness ==
    \E t \in Callers :
        /\ NoAuthCallRunning
        /\ op[t] = "login"
        /\ result[t].outcome = "raise"
        /\ session_info.present
        /\ client_headers = "tokA"

====
